---- MODULE Spec2Model ----
(***************************************************************************)
(* The task coordination layer of aws-spot-price-comparison:               *)
(* RedisCache's priority queue, task records, result correlation and       *)
(* stale-task sweep (src/redis_cache.py), driven by the Worker loop        *)
(* (src/worker.py) and by the producers (src/api.py, src/scheduler.py).    *)
(* Every Redis command is one atomic step; a method that issues several    *)
(* commands is a sequence of steps of the calling process.                 *)
(***************************************************************************)
EXTENDS Integers, Sequences, FiniteSets, TLC

(* ------------------------------ bounds -------------------------------- *)
\* number of task ids the producers may create
MaxTasks == 2
\* number of requeue_stale_tasks sweeps that may be started
MaxSweeps == 2
\* the clock advances TickSeconds at a time, up to MaxTime
TickSeconds == 301
MaxTime == 400
\* the timeout handed to wait_for_task_result, in poll intervals
WaitTimeout == 3
\* the longest a store read of the waiter may take, in poll intervals
MaxLatency == 2
\* the longest a record's lifetime is followed, in seconds
MaxLife == 600
\* the number of enqueue_task calls whose generated ids are compared
MaxIssued == 3
\* the process ids the system hands to forked API processes: the MaxPids
\* ids after the master's
MaxPids == 6

\* the configured RATE_LIMIT (src/api.py:105, read from the environment)
RATE_LIMIT == 2
\* the rate-limit windows that end within the time followed
MaxWindows == 1

(* ------------------------- program constants -------------------------- *)
\* src/api.py:106
RATE_LIMIT_WINDOW == 60
\* TaskPriority (src/redis_cache.py:56-59)
HIGH == 100
MEDIUM == 50
LOW == 10
\* self.cache_expiry (src/redis_cache.py:79)
cache_expiry == 600
max_retries == 3
\* "if age > 300" (src/redis_cache.py:220)
STALE_AGE == 300
\* time.sleep(0.1) (src/redis_cache.py:316): the poll interval is the unit of
\* the clock, ten to the second.
TicksPerSecond == 10
PollInterval == 1
Seconds(n) == n * TicksPerSecond

\* TaskStatus (src/redis_cache.py:61-66)
QUEUED == "queued"
PROCESSING == "processing"
COMPLETED == "completed"
FAILED == "failed"
PENDING == "pending"

Workers == {"w1", "w2"}
\* The API handlers (concurrent requests) and the scheduler.
Producers == {"api", "api2", "scheduler"}
\* The scheduler processes run against the same store (src/scheduler.py:129-132).
Schedulers == {"scheduler", "scheduler2"}
\* Every process that calls enqueue_task.
Enqueuers == Producers \cup Schedulers
TaskIds == 1..MaxTasks
NoId == 0

(* ----------------------------- Python values -------------------------- *)
\* A Python value with its type, for the comparisons whose operands may
\* differ in type (an int never equals a str).
PyInt(n) == [ty |-> "int", val |-> ToString(n)]
PyStr(s) == [ty |-> "str", val |-> s]
PyEq(a, b) == a.ty = b.ty /\ a.val = b.val

\* What Redis keeps for a field value handed to HSET: its string form.
RedisEncode(v) == v.val
\* What the client hands back for a stored field: a string.
RedisReply(s) == PyStr(s)

(* ------------------------------- JSON --------------------------------- *)
\* Results of the opaque price fetch (SpotPriceService.get_best_price): a
\* dict of the best price, whose aws_timestamp may be None, or a dict with
\* only an 'error' message.
None == [ty |-> "NoneType", val |-> "None"]
PriceResult(p, ts) == [ty |-> "dict", keys |-> {"price", "aws_timestamp"},
                       price |-> [ty |-> "float", val |-> p], aws_timestamp |-> ts,
                       error |-> None]
ErrorResult(m) == [ty |-> "dict", keys |-> {"error"},
                   price |-> None, aws_timestamp |-> None, error |-> PyStr(m)]
Results == {PriceResult("0.0049", PyStr("t0")), PriceResult("0.0049", None),
            ErrorResult("no prices")}
\* Messages of the exceptions the fetch may raise.
FetchErrors == {"boom"}

\* json.dumps: the text of a scalar, then of a dict (members by key).
JsonScalar(v) ==
    CASE v.ty = "NoneType" -> "null"
      [] v.ty = "float" -> v.val
      [] v.ty = "str" -> "\"" \o v.val \o "\""
      [] v.ty = "int" -> v.val
json_dumps_mutant(r) == [text |-> "object", keys |-> r.keys,
                  price |-> JsonScalar(r.price),
                  aws_timestamp |-> "\"None\"",
                  error |-> JsonScalar(r.error)]
json_dumps(r) == [text |-> "object", keys |-> r.keys,
                  price |-> JsonScalar(r.price),
                  aws_timestamp |-> JsonScalar(r.aws_timestamp),
                  error |-> JsonScalar(r.error)]
\* json.loads of a scalar text: null, a quoted string, or a number.
JsonParseScalar(t) ==
    IF t = "null" THEN None
    ELSE IF Len(t) >= 2 /\ SubSeq(t, 1, 1) = "\"" THEN PyStr(SubSeq(t, 2, Len(t) - 1))
    ELSE [ty |-> "float", val |-> t]
json_loads(j) == [ty |-> "dict", keys |-> j.keys,
                  price |-> JsonParseScalar(j.price),
                  aws_timestamp |-> JsonParseScalar(j.aws_timestamp),
                  error |-> JsonParseScalar(j.error)]
NoValue == [text |-> "nil"]

(* ------------------------------- state -------------------------------- *)
VARIABLES
    decode_responses, \* the client's replies are str (TRUE) or bytes (FALSE)
    now,              \* the wall clock, in poll intervals (tenths of a second)
    high, low,        \* the lists 'tasks:high' and 'tasks:low'; LPUSH adds at index 1
    task,             \* the hashes 'task:<id>'
    task_ttl,         \* the expiry instant of each 'task:<id>' key, or NoExpiry
    result,           \* the strings 'result:<id>'
    result_ttl,       \* the expiry instant of each 'result:<id>' key, or NoExpiry
    next_id,          \* the next task id enqueue_task generates
    ppc, p_id,        \* producers: position in enqueue_task, and its task_id
    wpc,              \* workers: position in Worker.run
    w_id,             \* get_next_task's task_id / process_task's task_id
    w_task,           \* get_next_task's task dict: the fields process_task reads
    w_cursor,         \* requeue_stale_tasks: the last key the scan yielded
    w_queue,          \* requeue_stale_tasks: queue_key
    w_count,          \* requeue_stale_tasks: stale_count
    sweeps,           \* number of requeue_stale_tasks calls started
    w_lane,           \* history: the lane the worker's task_id was popped from
    w_high_len,       \* history: length of 'tasks:high' when that pop happened
    w_high_empty,     \* history: the call's RPOP of 'tasks:high' found it empty
    tags,             \* history: for each lane, the push number of each queued id
    pushes,           \* history: the number of pushes onto each lane
    last_pop,         \* history: the push number of the id last popped from each lane
    fifo,             \* history: every pop took the oldest id queued on its lane
    sent,             \* history: the result last handed to set_task_result, per id
    started_at,       \* history: when each task last entered processing
    wt_pc,            \* wait_for_task_result: position of the waiting caller
    wt_id,            \* wait_for_task_result: task_id
    wt_start,         \* wait_for_task_result: start_time
    wt_out,           \* wait_for_task_result: what the call returned or raised
    last_call,        \* history: per process, how its last store call that met a
                      \* connection failure ended
    pid,              \* os.getpid() of each API process of the pool, NoPid when not running
    primary,          \* what is_primary_worker last answered in each API process
    holder_left,      \* history: a process that had answered True has exited
    spc,              \* schedulers: position in Scheduler.run
    current_time,     \* Scheduler.run's current_time
    last_update,      \* Scheduler.run's last_update
    issued,           \* the task ids enqueue_task has generated, in order, as strings
    spot_price,       \* the strings 'spot_price:<region>:<instance_type>'
    spot_price_ttl,   \* the expiry instant of each of them, or NoExpiry
    scanned,          \* clear_cache: the keys its SCAN returned, NoScan outside a call
    price_read,       \* the key and the return value of the last get_spot_prices
    last_set,         \* history: the data of the last set_spot_prices of each key
    set_at,           \* history: when that call was made
    removed,          \* history: the key was deleted after that call
    req,              \* GET /spot-prices/<region>/<instance_type>: the request being
                      \* served, with SpotPriceService.get_spot_price's cached_data
    response,         \* the response to the last such request
    rpc,              \* _retry_operation: position of the call
    attempt,          \* _retry_operation: attempt
    last_error,       \* _retry_operation: last_error
    retry_log,        \* history: what each invocation of the operation did
    reconnects,       \* history: whether each connect() between attempts succeeded
    retry_out,        \* what the last _retry_operation call returned or raised
    lapsed,           \* history: the keys 'task:<id>' and 'result:<id>' Redis has expired
    rl_count,         \* the counters 'rate_limit:<ip>:<window>', 0 for a missing key
    rl_ttl,           \* the expiry instant of each of them, or NoExpiry
    rl_req,           \* rate_limit: each request's position, locals and response
    rl_failed,        \* history: a store operation of rate_limit has failed
    running           \* Worker.running of each worker

store_vars == <<high, low, task, task_ttl, result, result_ttl>>
producer_vars == <<next_id, ppc, p_id>>
worker_vars == <<wpc, w_id, w_task, w_cursor, w_queue, w_count, sweeps>>
history_vars == <<w_lane, w_high_len, w_high_empty, tags, pushes, last_pop, fifo>>
waiter_vars == <<wt_pc, wt_id, wt_start, wt_out>>
\* What the queue's actions leave alone.
pool_vars == <<pid, primary, holder_left>>
sched_vars == <<spc, current_time, last_update>>
price_vars == <<spot_price, spot_price_ttl, scanned, price_read, last_set, set_at, removed>>
api_vars == <<req, response>>
retry_vars == <<rpc, attempt, last_error, retry_log, reconnects, retry_out>>
limit_vars == <<rl_count, rl_ttl, rl_req, rl_failed>>
late_vars == <<retry_vars, lapsed, limit_vars, running>>
rest_vars == <<issued, price_vars, api_vars, late_vars>>
queue_ext_vars == <<last_call, pool_vars, rest_vars>>
ext_vars == <<queue_ext_vars, sched_vars>>
vars == <<decode_responses, now, store_vars, producer_vars, worker_vars, history_vars,
          sent, started_at, waiter_vars, ext_vars>>

(* ------------------------------ the store ----------------------------- *)
NoField == "<nil>"
NoTime == -1
NoExpiry == -1
\* HGETALL of a missing key: the empty dict.
EmptyHash == [type |-> NoField, status |-> NoField, data |-> NoField,
              priority |-> NoField, created_at |-> NoTime,
              result_key |-> NoField, error |-> NoField, completed_at |-> NoTime]
Exists(id) == task[id] # EmptyHash
\* No task dict in hand.
NoTask == [type |-> NoField, data |-> NoField]

Lanes == {"tasks:high", "tasks:low"}
\* LPUSH key value / RPOP key
LPush_tail(q, v) == q \o <<v>>
LPush(q, v) == <<v>> \o q
RPopValue(q) == IF q = <<>> THEN NoId ELSE q[Len(q)]
RPopRest_kept(q) == q
RPopRest(q) == IF q = <<>> THEN q ELSE SubSeq(q, 1, Len(q) - 1)

\* EXPIRE / SET ... EX: the key is gone once the clock reaches the instant.
ExpireAt(seconds) == now + Seconds(seconds)
Expired_early(ttl, t) == ttl # NoExpiry
Expired(ttl, t) == ttl # NoExpiry /\ t >= ttl

\* The queue a priority maps to (src/redis_cache.py:147 and :223).
QueueKey(priority) == IF PyEq(priority, PyInt(HIGH)) THEN "tasks:high" ELSE "tasks:low"

\* History of a push onto lane q and of a pop from it: the pushes are
\* numbered, and a pop is in order when it takes the number after the last one.
LogPush(q) ==
    /\ pushes' = [pushes EXCEPT ![q] = @ + 1]
    /\ tags' = [tags EXCEPT ![q] = LPush(@, pushes[q] + 1)]
    /\ UNCHANGED <<last_pop, fifo>>
LogPop(q) ==
    /\ tags' = [tags EXCEPT ![q] = RPopRest(@)]
    /\ last_pop' = [last_pop EXCEPT ![q] = RPopValue(tags[q])]
    /\ fifo' = (fifo /\ RPopValue(tags[q]) = last_pop[q] + 1)
    /\ UNCHANGED pushes
LogVars == <<tags, pushes, last_pop, fifo>>

\* bytes.decode() of a reply; a str reply has no decode().  connect() asks
\* for str replies (decode_responses=True, line 90) while lines 169, 179,
\* 212, 221 and 298 decode them as bytes: Init covers both kinds of client.
CanDecode == ~decode_responses

\* What a call of wait_for_task_result ends with: a returned value, or a
\* raised TimeoutError or Exception with its message.
\* The API processes gunicorn forks (src/api.py runs in each of them).
Pool == {"g1", "g2", "g3"}
NoPid == 0
NotAsked == "not asked"
\* No store call of the process has met a connection failure.
NoCall == [op |-> "none", ended |-> "none"]
NoOutcome == [kind |-> "none", value |-> None, msg |-> NoField]
Returned(v) == [kind |-> "return", value |-> v, msg |-> NoField]
Raised(kind, m) == [kind |-> kind, value |-> None, msg |-> m]

\* The concurrent requests to a rate-limited endpoint, the addresses they
\* come from and the windows the clock reaches.
Clients == {"c1", "c2", "c3"}
ClientIps == {"10.0.0.1", "10.0.0.2"}
RateKeys == ClientIps \X (0..MaxWindows)
NoLimitRequest == [pc |-> "idle", client_ip |-> NoField, window |-> 0, current_requests |-> 0,
                   invoked |-> 0, status_code |-> 0, error |-> NoField,
                   body_status_code |-> 0]

\* The (region, instance_type) pairs the price cache is asked about.
Regions == {"us-east-1", "us-west-1"}
InstanceTypes == {"t2.micro"}
\* src/redis_cache.py:500-502
get_cache_key(region, instance_type) == "spot_price:" \o region \o ":" \o instance_type
CacheKeys == {get_cache_key(r, t) : r \in Regions, t \in InstanceTypes}
\* clear_cache is not between its SCAN and its DELETE.
NoScan == {"no scan"}
\* No request is being served; no response has been sent.
NoRequest == [pc |-> "idle", region |-> NoField, instance_type |-> NoField,
              cached_data |-> None]
NoResponse == [key |-> NoField, no_prices |-> FALSE, source |-> NoField,
               status_code |-> 0, error |-> NoField, body_status_code |-> 0]

(* -------------------------------- Init -------------------------------- *)
Init ==
    /\ decode_responses \in BOOLEAN
    /\ now = 0
    /\ high = <<>> /\ low = <<>>
    /\ task = [i \in TaskIds |-> EmptyHash]
    /\ task_ttl = [i \in TaskIds |-> NoExpiry]
    /\ result = [i \in TaskIds |-> NoValue]
    /\ result_ttl = [i \in TaskIds |-> NoExpiry]
    /\ next_id = 1
    /\ ppc = [p \in Enqueuers |-> "idle"]
    /\ p_id = [p \in Enqueuers |-> NoId]
    /\ wpc = [w \in Workers |-> "loop"]
    /\ w_id = [w \in Workers |-> NoId]
    /\ w_task = [w \in Workers |-> NoTask]
    /\ w_cursor = [w \in Workers |-> 0]
    /\ w_queue = [w \in Workers |-> NoField]
    /\ w_count = [w \in Workers |-> 0]
    /\ sweeps = 0
    /\ w_lane = [w \in Workers |-> NoField]
    /\ w_high_len = [w \in Workers |-> 0]
    /\ w_high_empty = [w \in Workers |-> FALSE]
    /\ tags = [q \in Lanes |-> <<>>]
    /\ pushes = [q \in Lanes |-> 0]
    /\ last_pop = [q \in Lanes |-> 0]
    /\ fifo = TRUE
    /\ sent = [i \in TaskIds |-> None]
    /\ started_at = [i \in TaskIds |-> NoTime]
    /\ wt_pc = "idle"
    /\ wt_id = NoId
    /\ wt_start = 0
    /\ wt_out = NoOutcome
    /\ last_call = [x \in Workers \cup Enqueuers |-> NoCall]
    /\ pid = [g \in Pool |-> NoPid]
    /\ primary = [g \in Pool |-> NotAsked]
    /\ holder_left = FALSE
    /\ spc = [sc \in Schedulers |-> "loop"]
    /\ current_time = [sc \in Schedulers |-> 0]
    /\ last_update = [sc \in Schedulers |-> 0]
    /\ issued = <<>>
    /\ spot_price = [k \in CacheKeys |-> NoValue]
    /\ spot_price_ttl = [k \in CacheKeys |-> NoExpiry]
    /\ scanned = NoScan
    /\ price_read = [key |-> NoField, value |-> None]
    /\ last_set = [k \in CacheKeys |-> None]
    /\ set_at = [k \in CacheKeys |-> NoTime]
    /\ removed = [k \in CacheKeys |-> FALSE]
    /\ req = NoRequest
    /\ response = NoResponse
    /\ rpc = "idle"
    /\ attempt = 0
    /\ last_error = None
    /\ retry_log = <<>>
    /\ reconnects = <<>>
    /\ retry_out = NoOutcome
    /\ lapsed = {}
    /\ rl_count = [k \in RateKeys |-> 0]
    /\ rl_ttl = [k \in RateKeys |-> NoExpiry]
    /\ rl_req = [c \in Clients |-> NoLimitRequest]
    /\ rl_failed = FALSE
    /\ running = [w \in Workers |-> TRUE]

(* ------------------------------ the clock ----------------------------- *)
\* d poll intervals pass; keys whose expiry instant is reached are deleted
\* by Redis.
Elapse(d) ==
    /\ now' = now + d
    /\ task' = [i \in TaskIds |-> IF Expired(task_ttl[i], now') THEN EmptyHash ELSE task[i]]
    /\ task_ttl' = [i \in TaskIds |-> IF Expired(task_ttl[i], now') THEN NoExpiry ELSE task_ttl[i]]
    /\ result' = [i \in TaskIds |-> IF Expired(result_ttl[i], now') THEN NoValue ELSE result[i]]
    /\ result_ttl' = [i \in TaskIds |-> IF Expired(result_ttl[i], now') THEN NoExpiry ELSE result_ttl[i]]

Tick ==
    /\ now + Seconds(TickSeconds) <= Seconds(MaxTime)
    /\ Elapse(Seconds(TickSeconds))
    /\ UNCHANGED <<ext_vars, started_at, waiter_vars, sent, decode_responses, high, low, producer_vars,
                   worker_vars, history_vars>>

\* Half of the records' lifetime (cache_expiry, line 144) passes.
HalfLife ==
    /\ now + Seconds(cache_expiry \div 2) <= Seconds(MaxLife)
    /\ Elapse(Seconds(cache_expiry \div 2))
    /\ UNCHANGED <<ext_vars, started_at, waiter_vars, sent, decode_responses, high, low, producer_vars,
                   worker_vars, history_vars>>

(* ------------------------- RedisCache.enqueue_task -------------------- *)
\* The producers of the repository: the API enqueues get_best_price with
\* TaskPriority.HIGH (src/api.py:324), the scheduler update_spot_prices
\* with TaskPriority.LOW (src/scheduler.py:85).
TaskType(p) == IF p \in Schedulers THEN "update_spot_prices" ELSE "get_best_price"
TaskPriorityOf(p) == IF p \in Schedulers THEN PyInt(LOW) ELSE PyInt(HIGH)

\* line 128: random.choices('0123456789abcdef', k=8), one of 16^8 strings;
\* two of them stand for all.
Suffixes == {"0000000a", "0000000b"}
\* line 129: task_id = f"{task_type}_{timestamp}_{random_suffix}".
task_id_of(task_type, timestamp, random_suffix) ==
    task_type \o "_" \o ToString(timestamp) \o "_" \o random_suffix

\* lines 126-129: the call reads the clock, draws the suffix and forms the id
\* it will return.
enqueue_task_generate_id(p) ==
    /\ Len(issued) < MaxIssued
    /\ \E random_suffix \in Suffixes :
        issued' = Append(issued, [by |-> p,
                                  id |-> task_id_of(TaskType(p), now, random_suffix)])
    /\ UNCHANGED <<price_vars, api_vars, late_vars, last_call, pool_vars, sched_vars, started_at, waiter_vars, sent, decode_responses, now,
                   store_vars, producer_vars, worker_vars, history_vars>>

\* Where the call stands in its caller: a scheduler that is in
\* enqueue_update_task (src/scheduler.py:84-88) moves on; the other callers
\* keep no position.
Caller(p, from, to) ==
    IF p \in Schedulers /\ spc[p] = from
    THEN spc' = [spc EXCEPT ![p] = to] /\ UNCHANGED <<current_time, last_update>>
    ELSE UNCHANGED sched_vars

\* lines 127-143: generate the id, build the task, HSET task:<id> mapping.
enqueue_task_hset(p) ==
    /\ ppc[p] = "idle"
    /\ next_id <= MaxTasks
    /\ next_id' = next_id + 1
    /\ p_id' = [p_id EXCEPT ![p] = next_id]
    /\ task' = [task EXCEPT ![next_id] =
                  [@ EXCEPT !.type = TaskType(p), !.status = PENDING, !.data = "json",
                            !.created_at = now,
                            !.priority = RedisEncode(TaskPriorityOf(p))]]
    /\ ppc' = [ppc EXCEPT ![p] = "expire"]
    /\ Caller(p, "call", "in_call")
    /\ UNCHANGED <<queue_ext_vars, started_at, waiter_vars, sent, decode_responses, now, high, low, task_ttl, result, result_ttl,
                   worker_vars, history_vars>>

\* line 144: EXPIRE task:<id> cache_expiry (no effect on a missing key).
enqueue_task_expire(p) ==
    /\ ppc[p] = "expire"
    /\ task_ttl' = [task_ttl EXCEPT ![p_id[p]] =
                      IF Exists(p_id[p]) THEN ExpireAt(cache_expiry) ELSE @]
    /\ ppc' = [ppc EXCEPT ![p] = "lpush"]
    /\ UNCHANGED <<ext_vars, started_at, waiter_vars, sent, decode_responses, now, high, low, task, result, result_ttl,
                   next_id, p_id, worker_vars, history_vars>>

\* lines 147-151: LPUSH the id onto the queue of its priority; return the id.
enqueue_task_lpush(p) ==
    /\ ppc[p] = "lpush"
    /\ LET q == QueueKey(TaskPriorityOf(p)) IN
        /\ high' = IF q = "tasks:high" THEN LPush(high, p_id[p]) ELSE high
        /\ low' = IF q = "tasks:low" THEN LPush(low, p_id[p]) ELSE low
        /\ LogPush(q)
    /\ ppc' = [ppc EXCEPT ![p] = "idle"]
    /\ p_id' = [p_id EXCEPT ![p] = NoId]
    /\ Caller(p, "in_call", "returned")
    /\ UNCHANGED <<queue_ext_vars, started_at, waiter_vars, sent, decode_responses, now, task, task_ttl, result, result_ttl,
                   next_id, worker_vars, w_lane, w_high_len, w_high_empty>>

(* ------------------------------ Worker.run --------------------------- *)
\* The locals of one loop iteration (lines 110-128), as they are when the
\* iteration has ended.
IdleLocals(w) ==
    /\ w_id' = [w_id EXCEPT ![w] = NoId]
    /\ w_task' = [w_task EXCEPT ![w] = NoTask]
SweepLocals(w, cursor, queue, count) ==
    /\ w_cursor' = [w_cursor EXCEPT ![w] = cursor]
    /\ w_queue' = [w_queue EXCEPT ![w] = queue]
    /\ w_count' = [w_count EXCEPT ![w] = count]
Goto(w, pc) == wpc' = [wpc EXCEPT ![w] = pc]

(* --------------------- RedisCache.requeue_stale_tasks ----------------- *)
Min(S) == CHOOSE x \in S : \A y \in S : x <= y
\* The keys 'task:*' the scan has still to yield.
ScanRest(w) == {i \in TaskIds : i > w_cursor[w] /\ Exists(i)}
\* task.get('priority', TaskPriority.LOW) on the decoded dict (line 222).
StoredPriority(t) == IF t.priority = NoField THEN PyInt(LOW) ELSE RedisReply(t.priority)
\* lines 215-220: status is processing and the age since created_at is over 300 s.
IsStale_any_age(t) == t.status = PROCESSING
IsStale(t) == t.status = PROCESSING /\ now - t.created_at > Seconds(STALE_AGE)

\* Worker.run lines 112-114: int(time.time()) % 60 == 0, the sweep starts.
run_requeue_due(w) ==
    /\ wpc[w] = "loop"
    /\ sweeps < MaxSweeps
    /\ sweeps' = sweeps + 1
    /\ Goto(w, "scan")
    /\ UNCHANGED <<ext_vars, started_at, waiter_vars, sent, decode_responses, now, store_vars, producer_vars, w_id, w_task,
                   w_cursor, w_queue, w_count, history_vars>>

\* lines 206-223: the scan yields the next key and HGETALL reads it; the
\* status and age are tested.  decode() of a str reply and a missing
\* 'created_at' raise, and lines 234-236 return 0.  With no key left the
\* method returns stale_count.
requeue_stale_tasks_scan(w) ==
    /\ wpc[w] = "scan"
    /\ IF ScanRest(w) = {}
       THEN Goto(w, "rpop_high") /\ SweepLocals(w, 0, NoField, 0)
       ELSE LET i == Min(ScanRest(w)) IN
            IF ~CanDecode \/ (task[i].status = PROCESSING /\ task[i].created_at = NoTime)
            THEN Goto(w, "rpop_high") /\ SweepLocals(w, 0, NoField, 0)
            ELSE IF IsStale(task[i])
            THEN /\ Goto(w, "sweep_hset")
                 /\ SweepLocals(w, i, QueueKey(StoredPriority(task[i])), w_count[w])
            ELSE /\ SweepLocals(w, i, NoField, w_count[w])
                 /\ UNCHANGED wpc
    /\ UNCHANGED <<ext_vars, started_at, waiter_vars, sent, decode_responses, now, store_vars, producer_vars, w_id, w_task,
                   sweeps, history_vars>>

requeue_stale_tasks_hset_no_reset(w) ==
    /\ wpc[w] = "sweep_hset"
    /\ Goto(w, "sweep_lpush")
    /\ UNCHANGED <<ext_vars, started_at, waiter_vars, sent, decode_responses, now, store_vars, producer_vars, w_id, w_task,
                   w_cursor, w_queue, w_count, sweeps, history_vars>>

\* line 226: HSET task:<id> status pending.
requeue_stale_tasks_hset(w) ==
    /\ wpc[w] = "sweep_hset"
    /\ task' = [task EXCEPT ![w_cursor[w]].status = PENDING]
    /\ Goto(w, "sweep_lpush")
    /\ UNCHANGED <<ext_vars, started_at, waiter_vars, sent, decode_responses, now, high, low, task_ttl, result, result_ttl,
                   producer_vars, w_id, w_task, w_cursor, w_queue,
                   w_count, sweeps, history_vars>>

\* lines 227-228: LPUSH queue_key task_id; stale_count += 1.
requeue_stale_tasks_lpush(w) ==
    /\ wpc[w] = "sweep_lpush"
    /\ high' = IF w_queue[w] = "tasks:high" THEN LPush(high, w_cursor[w]) ELSE high
    /\ low' = IF w_queue[w] = "tasks:low" THEN LPush(low, w_cursor[w]) ELSE low
    /\ LogPush(w_queue[w])
    /\ SweepLocals(w, w_cursor[w], NoField, w_count[w] + 1)
    /\ Goto(w, "scan")
    /\ UNCHANGED <<ext_vars, started_at, waiter_vars, sent, decode_responses, now, task, task_ttl, result, result_ttl,
                   producer_vars, w_id, w_task,
                   sweeps, w_lane, w_high_len, w_high_empty>>

(* ------------------------ RedisCache.get_next_task -------------------- *)
\* What follows a pop that returned an id: line 169 decodes it (a str
\* reply raises, lines 195-197 return None and Worker.run sleeps).
AfterPop(w, id) ==
    IF CanDecode
    THEN Goto(w, "hgetall") /\ w_id' = [w_id EXCEPT ![w] = id]
    ELSE Goto(w, "loop") /\ UNCHANGED w_id

\* "if not task_id" (lines 162 and 166): the pop returned nothing.
PopMissed_always(id) == TRUE
PopMissed(id) == id = NoId

\* line 161: RPOP tasks:high.
get_next_task_rpop_high(w) ==
    /\ wpc[w] \in {"loop", "rpop_high"}
    /\ LET id == RPopValue(high) IN
        /\ high' = RPopRest(high)
        /\ w_high_empty' = [w_high_empty EXCEPT ![w] = (high = <<>>)]
        /\ IF PopMissed(id)
           THEN /\ Goto(w, "rpop_low")
                /\ w_lane' = [w_lane EXCEPT ![w] = NoField]
                /\ w_high_len' = [w_high_len EXCEPT ![w] = 0]
                /\ UNCHANGED <<w_id, LogVars>>
           ELSE /\ AfterPop(w, id)
                /\ w_lane' = [w_lane EXCEPT ![w] = "tasks:high"]
                /\ w_high_len' = [w_high_len EXCEPT ![w] = Len(high)]
                /\ LogPop("tasks:high")
    /\ UNCHANGED <<ext_vars, started_at, waiter_vars, sent, decode_responses, now, low, task, task_ttl, result, result_ttl,
                   producer_vars, w_task, w_cursor, w_queue, w_count,
                   sweeps>>

\* lines 162-167: RPOP tasks:low; with no id, return None (Worker.run sleeps).
get_next_task_rpop_low(w) ==
    /\ wpc[w] = "rpop_low"
    /\ LET id == RPopValue(low) IN
        /\ low' = RPopRest(low)
        /\ IF id = NoId
           THEN /\ Goto(w, "loop")
                /\ UNCHANGED <<w_id, w_lane, w_high_len, LogVars>>
           ELSE /\ AfterPop(w, id)
                /\ w_lane' = [w_lane EXCEPT ![w] = "tasks:low"]
                /\ w_high_len' = [w_high_len EXCEPT ![w] = Len(high)]
                /\ LogPop("tasks:low")
    /\ UNCHANGED <<ext_vars, started_at, waiter_vars, sent, decode_responses, now, high, task, task_ttl, result, result_ttl,
                   producer_vars, w_task, w_cursor, w_queue, w_count,
                   sweeps, w_high_empty>>

\* lines 172-188: HGETALL task:<id>; an empty reply returns None.
get_next_task_hgetall(w) ==
    /\ wpc[w] = "hgetall"
    /\ IF ~Exists(w_id[w])
       THEN Goto(w, "loop") /\ IdleLocals(w)
       ELSE /\ Goto(w, "hset_processing")
            /\ w_task' = [w_task EXCEPT ![w] =
                             [type |-> task[w_id[w]].type, data |-> task[w_id[w]].data]]
            /\ UNCHANGED w_id
    /\ UNCHANGED <<ext_vars, started_at, waiter_vars, sent, decode_responses, now, store_vars, producer_vars,
                   w_cursor, w_queue, w_count, sweeps, history_vars>>

\* lines 190-193: HSET task:<id> status processing; return the task.
get_next_task_hset(w) ==
    /\ wpc[w] = "hset_processing"
    /\ task' = [task EXCEPT ![w_id[w]].status = PROCESSING]
    /\ started_at' = [started_at EXCEPT ![w_id[w]] = now]
    /\ Goto(w, "process")
    /\ UNCHANGED <<ext_vars, waiter_vars, sent, decode_responses, now, high, low, task_ttl, result, result_ttl,
                   producer_vars, w_id, w_task, w_cursor, w_queue,
                   w_count, sweeps, history_vars>>

(* --------------- Worker.process_task and the outcome writes ----------- *)
ResultKey(id) == "result:" \o ToString(id)
\* The task types process_task knows (src/worker.py:70 and :81).
KnownTypes == {"get_best_price", "update_spot_prices"}

\* src/worker.py:62-63 and :81-94.  task['type'] of a dict without 'type'
\* raises before the try (Worker.run logs it and loops); an
\* update_spot_prices task returns True; neither writes an outcome.
process_task_no_outcome(w) ==
    /\ wpc[w] = "process"
    /\ w_task[w].type \in {NoField, "update_spot_prices"}
    /\ Goto(w, "loop") /\ IdleLocals(w)
    /\ UNCHANGED <<ext_vars, started_at, waiter_vars, sent, decode_responses, now, store_vars, producer_vars,
                   w_cursor, w_queue, w_count, sweeps, history_vars>>

\* src/worker.py:70-77: the fetch of a get_best_price task returns a result
\* of `fetched`, and set_task_result (src/redis_cache.py:244-249) does
\* SET result:<id> json.dumps(result) EX cache_expiry.
process_task_set_result_unstored(w, fetched) ==
    /\ wpc[w] = "process"
    /\ w_task[w].type = "get_best_price"
    /\ \E r \in fetched : sent' = [sent EXCEPT ![w_id[w]] = r]
    /\ Goto(w, "hset_completed")
    /\ UNCHANGED <<ext_vars, started_at, waiter_vars, decode_responses, now, high, low, task, task_ttl, producer_vars,
                   w_id, w_task, w_cursor, w_queue, w_count, sweeps,
                   history_vars, result, result_ttl>>
process_task_set_result(w, fetched) ==
    /\ wpc[w] = "process"
    /\ w_task[w].type = "get_best_price"
    /\ \E r \in fetched :
        /\ result' = [result EXCEPT ![w_id[w]] = json_dumps(r)]
        /\ sent' = [sent EXCEPT ![w_id[w]] = r]
    /\ result_ttl' = [result_ttl EXCEPT ![w_id[w]] = ExpireAt(cache_expiry)]
    /\ Goto(w, "hset_completed")
    /\ UNCHANGED <<ext_vars, started_at, waiter_vars, decode_responses, now, high, low, task, task_ttl, producer_vars,
                   w_id, w_task, w_cursor, w_queue, w_count, sweeps,
                   history_vars>>

set_task_result_hset_toggle(w) ==
    /\ wpc[w] = "hset_completed"
    /\ task' = [task EXCEPT ![w_id[w]] =
                  [@ EXCEPT !.status = IF @ = COMPLETED THEN PENDING ELSE COMPLETED,
                            !.result_key = ResultKey(w_id[w]),
                            !.completed_at = now]]
    /\ Goto(w, "loop") /\ IdleLocals(w)
    /\ UNCHANGED <<ext_vars, started_at, waiter_vars, sent, decode_responses, now, high, low, task_ttl, result, result_ttl,
                   producer_vars, w_cursor, w_queue, w_count, sweeps, history_vars>>

\* src/redis_cache.py:251-257: HSET task:<id> status completed, result_key,
\* completed_at.
set_task_result_hset(w) ==
    /\ wpc[w] = "hset_completed"
    /\ task' = [task EXCEPT ![w_id[w]] =
                  [@ EXCEPT !.status = COMPLETED, !.result_key = ResultKey(w_id[w]),
                            !.completed_at = now]]
    /\ Goto(w, "loop") /\ IdleLocals(w)
    /\ UNCHANGED <<ext_vars, started_at, waiter_vars, sent, decode_responses, now, high, low, task_ttl, result, result_ttl,
                   producer_vars, w_cursor, w_queue, w_count, sweeps, history_vars>>

\* The error message process_task hands to set_task_error: the message of
\* the exception the fetch raised (src/worker.py:101-103), or 'Unknown task
\* type' (src/worker.py:96-98).
ErrorMessages(t) ==
    IF t.type = "get_best_price" THEN FetchErrors
    ELSE {"Unknown task type: " \o t.type}

\* set_task_error (src/redis_cache.py:270-276): HSET task:<id> status failed,
\* error, completed_at.
process_task_set_error(w) ==
    /\ wpc[w] = "process"
    /\ w_task[w].type \notin {NoField, "update_spot_prices"}
    /\ \E e \in ErrorMessages(w_task[w]) :
        task' = [task EXCEPT ![w_id[w]] =
                  [@ EXCEPT !.status = FAILED, !.error = e, !.completed_at = now]]
    /\ Goto(w, "loop") /\ IdleLocals(w)
    /\ UNCHANGED <<ext_vars, started_at, waiter_vars, sent, decode_responses, now, high, low, task_ttl, result, result_ttl,
                   producer_vars, w_cursor, w_queue, w_count, sweeps, history_vars>>

(* ------------------------ connection failures ------------------------ *)
\* A store command raises redis.ConnectionError.  enqueue_task,
\* get_next_task and requeue_stale_tasks call self.client directly, not
\* through _retry_operation, so the command is attempted once.
Failed(x, op, ended) ==
    /\ last_call' = [last_call EXCEPT ![x] = [op |-> op, ended |-> ended]]
    /\ UNCHANGED <<pool_vars, sched_vars, rest_vars>>

\* enqueue_task, lines 142 and 153-155: the HSET raises; the except logs and
\* re-raises.  Nothing is stored.
enqueue_task_hset_fails(p) ==
    /\ ppc[p] = "idle"
    /\ Failed(p, "enqueue_task", "raise")
    /\ UNCHANGED <<started_at, waiter_vars, sent, decode_responses, now, store_vars, producer_vars,
                   worker_vars, history_vars>>

\* get_next_task, lines 161 and 195-197: the RPOP raises; the except logs and
\* returns None, and Worker.run sleeps as for an empty queue (line 124).
get_next_task_rpop_fails(w) ==
    /\ wpc[w] \in {"loop", "rpop_high", "rpop_low"}
    /\ Failed(w, "get_next_task", "None")
    /\ Goto(w, "loop") /\ IdleLocals(w)
    /\ UNCHANGED <<started_at, waiter_vars, sent, decode_responses, now, store_vars, producer_vars,
                   w_cursor, w_queue, w_count, sweeps, history_vars>>

\* get_next_task, lines 173 and 195-197: the id is popped and the HGETALL
\* raises; the except returns None and the id is on no lane.
get_next_task_hgetall_fails(w) ==
    /\ wpc[w] = "hgetall"
    /\ Failed(w, "get_next_task", "None")
    /\ Goto(w, "loop") /\ IdleLocals(w)
    /\ UNCHANGED <<started_at, waiter_vars, sent, decode_responses, now, store_vars, producer_vars,
                   w_cursor, w_queue, w_count, sweeps, history_vars>>

\* requeue_stale_tasks, lines 206-207 and 234-236: the scan or the HGETALL
\* raises; the except logs and returns 0.
requeue_stale_tasks_scan_fails(w) ==
    /\ wpc[w] = "scan"
    /\ Failed(w, "requeue_stale_tasks", "0")
    /\ Goto(w, "rpop_high") /\ SweepLocals(w, 0, NoField, 0)
    /\ UNCHANGED <<started_at, waiter_vars, sent, decode_responses, now, store_vars, producer_vars,
                   w_id, w_task, sweeps, history_vars>>

(* --------------------------- the API process pool --------------------- *)
\* GUNICORN_WORKERS, default 4 (src/api.py:18).
TOTAL_WORKERS == 4
\* os.getppid(): the pid of the gunicorn master.
MasterPid == 7
PidRange == (MasterPid + 1)..(MasterPid + MaxPids)
\* src/api.py:20-31: (pid - os.getppid() - 1) % TOTAL_WORKERS.
get_worker_number(n) == (n - MasterPid - 1) % TOTAL_WORKERS
\* src/api.py:92-103: primary is the process whose worker number is 0.
is_primary_worker(n) == get_worker_number(n) = 0

\* The master forks an API process; the system gives it a pid no running
\* process has.
fork(g) ==
    /\ pid[g] = NoPid
    /\ \E n \in PidRange :
        /\ \A h \in Pool : pid[h] # n
        /\ pid' = [pid EXCEPT ![g] = n]
    /\ UNCHANGED <<primary, holder_left, rest_vars, sched_vars, last_call, started_at, waiter_vars, sent, decode_responses, now,
                   store_vars, producer_vars, worker_vars, history_vars>>

\* An API process exits (a crash, or gunicorn recycles it).
exit(g) ==
    /\ pid[g] # NoPid
    /\ pid' = [pid EXCEPT ![g] = NoPid]
    /\ primary' = [primary EXCEPT ![g] = NotAsked]
    /\ holder_left' = (holder_left \/ primary[g] = "True")
    /\ UNCHANGED <<rest_vars, sched_vars, last_call, started_at, waiter_vars, sent, decode_responses, now,
                   store_vars, producer_vars, worker_vars, history_vars>>

\* The process asks is_primary_worker().
is_primary_worker_call(g) ==
    /\ pid[g] # NoPid
    /\ primary' = [primary EXCEPT ![g] = IF is_primary_worker(pid[g]) THEN "True" ELSE "False"]
    /\ UNCHANGED <<pid, holder_left, rest_vars, sched_vars, last_call, started_at, waiter_vars, sent, decode_responses, now,
                   store_vars, producer_vars, worker_vars, history_vars>>

(* ----------------------------- Scheduler.run -------------------------- *)
\* UPDATE_INTERVAL, default 300 s (src/scheduler.py:48).
update_interval == 300
\* time.time() is Unix time: at the start of the model it is some instant
\* not less than update_interval, and it advances with the clock.
StartTime == Seconds(update_interval)
time_time == StartTime + now

\* src/scheduler.py:103-107: current_time = time.time(); when
\* current_time - last_update >= update_interval the scheduler goes on to
\* enqueue_update_task, otherwise it sleeps a second (line 117).
scheduler_run_check(sc) ==
    /\ spc[sc] = "loop"
    /\ current_time' = [current_time EXCEPT ![sc] = time_time]
    /\ spc' = [spc EXCEPT ![sc] =
                 IF time_time - last_update[sc] >= Seconds(update_interval)
                 THEN "call" ELSE "loop"]
    /\ UNCHANGED <<last_update, queue_ext_vars, started_at, waiter_vars, sent, decode_responses, now,
                   store_vars, producer_vars, worker_vars, history_vars>>

\* src/scheduler.py:108-110: enqueue_update_task returned a task id;
\* last_update = current_time.
scheduler_run_update(sc) ==
    /\ spc[sc] = "returned"
    /\ last_update' = [last_update EXCEPT ![sc] = current_time[sc]]
    /\ spc' = [spc EXCEPT ![sc] = "loop"]
    /\ UNCHANGED <<current_time, queue_ext_vars, started_at, waiter_vars, sent, decode_responses, now,
                   store_vars, producer_vars, worker_vars, history_vars>>

(* -------------------- RedisCache.wait_for_task_result ----------------- *)
\* An id no enqueue_task has generated.
UnknownId == MaxTasks + 1
\* HGETALL task:<id> and GET result:<id> as the waiter sees them.
Record(id) == IF id \in TaskIds THEN task[id] ELSE EmptyHash
Stored(id) == IF id \in TaskIds THEN result[id] ELSE NoValue
\* The ids enqueue_task has returned to its caller.
Enqueued == {i \in TaskIds : Exists(i) /\ \A p \in Enqueuers : p_id[p] # i}

\* lines 287-288: start_time = time.time(); the caller waits on the id
\* enqueue_task returned to it, or on an id that has no record.
wait_for_task_result_begin ==
    /\ wt_pc = "idle"
    /\ \E id \in Enqueued \cup {UnknownId} : wt_id' = id
    /\ wt_start' = now
    /\ wt_pc' = "check"
    /\ UNCHANGED <<ext_vars, started_at, decode_responses, now, store_vars, producer_vars, worker_vars,
                   history_vars, sent, wt_out>>

\* line 290: the loop goes on while (time.time() - start_time) < timeout.
TimedOut_early(elapsed, timeout) == ~(elapsed < timeout - 1)
TimedOut(elapsed, timeout) == ~(elapsed < timeout)

wait_for_task_result_check_cancels ==
    /\ wt_pc = "check"
    /\ IF TimedOut(now - wt_start, WaitTimeout)
       THEN /\ wt_pc' = "done" /\ wt_out' = Raised("TimeoutError", "Task timed out")
            /\ task' = [i \in TaskIds |-> IF i = wt_id THEN EmptyHash ELSE task[i]]
       ELSE wt_pc' = "poll" /\ UNCHANGED <<wt_out, task>>
    /\ UNCHANGED <<ext_vars, started_at, decode_responses, now, high, low, task_ttl, result, result_ttl,
                   producer_vars, worker_vars, history_vars, sent, wt_id, wt_start>>

\* lines 290 and 318: the loop test; past the timeout, raise TimeoutError.
wait_for_task_result_check ==
    /\ wt_pc = "check"
    /\ IF TimedOut(now - wt_start, WaitTimeout)
       THEN wt_pc' = "done" /\ wt_out' = Raised("TimeoutError", "Task timed out")
       ELSE wt_pc' = "poll" /\ UNCHANGED wt_out
    /\ UNCHANGED <<ext_vars, started_at, decode_responses, now, store_vars, producer_vars, worker_vars,
                   history_vars, sent, wt_id, wt_start>>

\* line 313: error = task_data.get('error', 'Unknown error').
FailureMessage_unknown(t) == "Unknown error"
FailureMessage(t) == IF t.error = NoField THEN "Unknown error" ELSE t.error

\* lines 292-314: HGETALL task:<id>, which takes up to MaxLatency; no record,
\* or a status neither completed nor failed, leads to the sleep; decode() of
\* a str reply raises; failed raises the stored error; completed without
\* result_key raises, with it the result is fetched.
wait_for_task_result_poll ==
    /\ wt_pc = "poll"
    /\ LET t == Record(wt_id) IN
        IF t = EmptyHash THEN wt_pc' = "sleep" /\ UNCHANGED wt_out
        ELSE IF ~CanDecode
        THEN wt_pc' = "done"
             /\ wt_out' = Raised("Exception", "'str' object has no attribute 'decode'")
        ELSE IF t.status = COMPLETED
        THEN IF t.result_key = NoField
             THEN wt_pc' = "done"
                  /\ wt_out' = Raised("Exception", "Task completed but result key missing")
             ELSE wt_pc' = "get" /\ UNCHANGED wt_out
        ELSE IF t.status = FAILED
        THEN wt_pc' = "done"
             /\ wt_out' = Raised("Exception", FailureMessage(t))
        ELSE wt_pc' = "sleep" /\ UNCHANGED wt_out
    /\ \E d \in 0..MaxLatency : Elapse(d)
    /\ UNCHANGED <<ext_vars, started_at, decode_responses, high, low, producer_vars, worker_vars,
                   history_vars, sent, wt_id, wt_start>>

\* lines 294 and 316: time.sleep(0.1).
wait_for_task_result_sleep ==
    /\ wt_pc = "sleep"
    /\ Elapse(PollInterval)
    /\ wt_pc' = "check"
    /\ UNCHANGED <<ext_vars, started_at, decode_responses, high, low, producer_vars, worker_vars,
                   history_vars, sent, wt_id, wt_start, wt_out>>

\* lines 307-310: GET result:<id>; return json.loads of it, or raise when
\* the key is gone.
wait_for_task_result_get ==
    /\ wt_pc = "get"
    /\ wt_out' = IF Stored(wt_id) = NoValue
                 THEN Raised("Exception", "Task result not found")
                 ELSE Returned(json_loads(Stored(wt_id)))
    /\ wt_pc' = "done"
    /\ UNCHANGED <<ext_vars, started_at, decode_responses, now, store_vars, producer_vars, worker_vars,
                   history_vars, sent, wt_id, wt_start>>

\* lines 292-314: what one poll of wait_for_task_result(id) makes of the
\* store as it is, read with a client whose replies decode: nothing yet, the
\* result, or an error.
PollOutcome(id) ==
    LET t == Record(id) IN
    IF t = EmptyHash THEN NoOutcome
    ELSE IF t.status = COMPLETED
    THEN IF t.result_key = NoField
         THEN Raised("Exception", "Task completed but result key missing")
         ELSE IF Stored(id) = NoValue
         THEN Raised("Exception", "Task result not found")
         ELSE Returned(json_loads(Stored(id)))
    ELSE IF t.status = FAILED THEN Raised("Exception", FailureMessage(t))
    ELSE NoOutcome

(* ---------------------- RedisCache.get_task_status ------------------- *)
\* GET task:<id> (line 387-390): nil for a missing key; every existing
\* 'task:<id>' is a hash (written by HSET only), and GET of a key that holds
\* a hash is answered with the error WRONGTYPE.
WrongType == [text |-> "WRONGTYPE Operation against a key holding the wrong kind of value"]
GetTask(id) == IF Record(id) = EmptyHash THEN NoValue ELSE WrongType
\* lines 384-394: json.loads(task_data) if task_data else None; the
\* ResponseError of the GET is not retried (line 116-118) and is caught at
\* line 392, which returns None.
get_task_status(id) ==
    LET task_data == GetTask(id) IN
    IF task_data = WrongType THEN None
    ELSE IF task_data = NoValue THEN None
    ELSE json_loads(task_data)
\* src/api.py:350-360: the status endpoint answers None with 404.
StatusResponse(id) ==
    IF get_task_status(id) = None
    THEN [status_code |-> 404, body |-> "Task not found"]
    ELSE [status_code |-> 200, body |-> "task"]

(* --------------------- RedisCache.get_queue_metrics ------------------ *)
\* The sorted set 'task_queue' and the set 'processing_tasks': no command of
\* the repository adds a member to either (the only writes are the SREM of
\* complete_task and fail_task, lines 345 and 375), so both keys are missing.
task_queue == {}
processing_tasks == {}
\* lines 396-419: ZCARD task_queue and SCARD processing_tasks, 0 for a
\* missing key.
get_queue_metrics ==
    [queued_tasks |-> Cardinality(task_queue),
     processing_tasks |-> Cardinality(processing_tasks)]

\* src/api.py:331-342: what get_best_price answers for the outcome of the wait.
ApiResponse(out) ==
    IF out.kind = "return" THEN [status_code |-> 200, body |-> "result"]
    ELSE IF out.kind = "TimeoutError" THEN [status_code |-> 408, body |-> "Request timed out"]
    ELSE [status_code |-> 500, body |-> out.msg]

\* The result the reclaim and queue specifications let the fetch return.
OneResult == {PriceResult("0.0049", None)}

(* --------------------------- the specification ------------------------ *)
\* One API handler, the scheduler, the workers and their sweeps, the clock.
Next ==
    \/ Tick
    \/ \E p \in {"api", "scheduler"} : enqueue_task_hset(p)
    \/ \E p \in {"api", "scheduler"} : enqueue_task_expire(p)
    \/ \E p \in {"api", "scheduler"} : enqueue_task_lpush(p)
    \/ \E w \in Workers : run_requeue_due(w)
    \/ \E w \in Workers : requeue_stale_tasks_scan(w)
    \/ \E w \in Workers : requeue_stale_tasks_hset(w)
    \/ \E w \in Workers : requeue_stale_tasks_lpush(w)
    \/ \E w \in Workers : get_next_task_rpop_high(w)
    \/ \E w \in Workers : get_next_task_rpop_low(w)
    \/ \E w \in Workers : get_next_task_hgetall(w)
    \/ \E w \in Workers : get_next_task_hset(w)
    \/ \E w \in Workers : process_task_no_outcome(w)
    \/ \E w \in Workers : process_task_set_result(w, OneResult)
    \/ \E w \in Workers : set_task_result_hset(w)
    \/ \E w \in Workers : process_task_set_error(w)

Spec == Init /\ [][Next]_vars

\* The queue alone: all producers and the workers, no sweep, no passing of time.
NextQueue ==
    \/ \E p \in Producers : enqueue_task_hset(p)
    \/ \E p \in Producers : enqueue_task_expire(p)
    \/ \E p \in Producers : enqueue_task_lpush(p)
    \/ \E w \in Workers : get_next_task_rpop_high(w)
    \/ \E w \in Workers : get_next_task_rpop_low(w)
    \/ \E w \in Workers : get_next_task_hgetall(w)
    \/ \E w \in Workers : get_next_task_hset(w)
    \/ \E w \in Workers : process_task_no_outcome(w)
    \/ \E w \in Workers : process_task_set_result(w, OneResult)
    \/ \E w \in Workers : set_task_result_hset(w)
    \/ \E w \in Workers : process_task_set_error(w)

SpecQueue == Init /\ [][NextQueue]_vars

\* Sweeps in sequence: once the first sweep has started the workers only
\* sweep, one at a time (no dequeue, no outcome write, no enqueue, and the
\* clock stands still); a worker that ended its sweep waits at its RPOP.
SweepPcs == {"scan", "sweep_hset", "sweep_lpush"}
NoSweepYet == sweeps = 0
NoSweepRunning == \A w \in Workers : wpc[w] \notin SweepPcs
NextSweeps ==
    \/ NoSweepYet /\ Tick
    \/ \E p \in {"api", "scheduler"} : NoSweepYet /\ enqueue_task_hset(p)
    \/ \E p \in {"api", "scheduler"} : NoSweepYet /\ enqueue_task_expire(p)
    \/ \E p \in {"api", "scheduler"} : NoSweepYet /\ enqueue_task_lpush(p)
    \/ \E w \in Workers : NoSweepRunning /\ run_requeue_due(w)
    \/ \E w \in Workers : requeue_stale_tasks_scan(w)
    \/ \E w \in Workers : requeue_stale_tasks_hset(w)
    \/ \E w \in Workers : requeue_stale_tasks_lpush(w)
    \/ \E w \in Workers : NoSweepYet /\ get_next_task_rpop_high(w)
    \/ \E w \in Workers : NoSweepYet /\ get_next_task_rpop_low(w)
    \/ \E w \in Workers : NoSweepYet /\ get_next_task_hgetall(w)
    \/ \E w \in Workers : NoSweepYet /\ get_next_task_hset(w)
    \/ \E w \in Workers : NoSweepYet /\ process_task_no_outcome(w)
    \/ \E w \in Workers : NoSweepYet /\ process_task_set_result(w, OneResult)
    \/ \E w \in Workers : NoSweepYet /\ set_task_result_hset(w)
    \/ \E w \in Workers : NoSweepYet /\ process_task_set_error(w)

SpecSweeps == Init /\ [][NextSweeps]_vars

\* One API request and a wait: the handler enqueues its task, a worker
\* dequeues it and writes the outcome, a caller waits; time passes in the waiter's reads and
\* sleeps.
NoRequestYet == next_id = 1
NextWait ==
    \/ NoRequestYet /\ enqueue_task_hset("api")
    \/ enqueue_task_expire("api")
    \/ enqueue_task_lpush("api")
    \/ get_next_task_rpop_high("w1")
    \/ get_next_task_rpop_low("w1")
    \/ get_next_task_hgetall("w1")
    \/ get_next_task_hset("w1")
    \/ process_task_set_result("w1", Results)
    \/ set_task_result_hset("w1")
    \/ process_task_set_error("w1")
    \/ wait_for_task_result_begin
    \/ wait_for_task_result_check
    \/ wait_for_task_result_poll
    \/ wait_for_task_result_sleep
    \/ wait_for_task_result_get

SpecWait == Init /\ [][NextWait]_vars

\* One worker loop that keeps running: the scheduler enqueues, the worker
\* sweeps when an iteration starts in a second divisible by 60
\* (src/worker.py:113) and otherwise goes on to get_next_task; the loop never
\* stops (while self.running, line 110), which is the weak fairness of its
\* steps.  Which branch the test at line 113 takes depends on the wall clock
\* at the moment the iteration starts, so no fairness is stated for it.
WorkerStep(w) ==
    \/ run_requeue_due(w)
    \/ requeue_stale_tasks_scan(w)
    \/ requeue_stale_tasks_hset(w)
    \/ requeue_stale_tasks_lpush(w)
    \/ get_next_task_rpop_high(w)
    \/ get_next_task_rpop_low(w)
    \/ get_next_task_hgetall(w)
    \/ get_next_task_hset(w)
    \/ process_task_no_outcome(w)
NextLive ==
    \/ Tick
    \/ enqueue_task_hset("scheduler")
    \/ enqueue_task_expire("scheduler")
    \/ enqueue_task_lpush("scheduler")
    \/ run_requeue_due("w1")
    \/ requeue_stale_tasks_scan("w1")
    \/ requeue_stale_tasks_hset("w1")
    \/ requeue_stale_tasks_lpush("w1")
    \/ get_next_task_rpop_high("w1")
    \/ get_next_task_rpop_low("w1")
    \/ get_next_task_hgetall("w1")
    \/ get_next_task_hset("w1")
    \/ process_task_no_outcome("w1")

SpecLive == Init /\ [][NextLive]_vars /\ WF_vars(WorkerStep("w1")) /\ WF_vars(Tick)

\* A record's lifetime: one API request, one worker, and the clock up to the
\* expiry of the record.
NextExpiry ==
    \/ HalfLife
    \/ enqueue_task_hset("api")
    \/ enqueue_task_expire("api")
    \/ enqueue_task_lpush("api")
    \/ get_next_task_rpop_high("w1")
    \/ get_next_task_rpop_low("w1")
    \/ get_next_task_hgetall("w1")
    \/ get_next_task_hset("w1")
    \/ process_task_set_result("w1", OneResult)
    \/ set_task_result_hset("w1")
    \/ process_task_set_error("w1")

SpecExpiry == Init /\ [][NextExpiry]_vars

\* The queue with a store whose connection may fail: one API handler, one
\* worker and its sweeps.
NextFaults ==
    \/ enqueue_task_hset("api")
    \/ enqueue_task_expire("api")
    \/ enqueue_task_lpush("api")
    \/ enqueue_task_hset_fails("api")
    \/ run_requeue_due("w1")
    \/ requeue_stale_tasks_scan("w1")
    \/ requeue_stale_tasks_scan_fails("w1")
    \/ get_next_task_rpop_high("w1")
    \/ get_next_task_rpop_low("w1")
    \/ get_next_task_hgetall("w1")
    \/ get_next_task_hset("w1")
    \/ get_next_task_rpop_fails("w1")
    \/ get_next_task_hgetall_fails("w1")
    \/ process_task_set_result("w1", OneResult)
    \/ set_task_result_hset("w1")
    \/ process_task_set_error("w1")

SpecFaults == Init /\ [][NextFaults]_vars

\* The pool of API processes: forks, exits and is_primary_worker calls.
NextPool ==
    \/ \E g \in Pool : fork(g)
    \/ \E g \in Pool : exit(g)
    \/ \E g \in Pool : is_primary_worker_call(g)

SpecPool == Init /\ [][NextPool]_vars

\* Two scheduler processes against the same store, and the clock.
NextSchedulers ==
    \/ Tick
    \/ \E sc \in Schedulers : scheduler_run_check(sc)
    \/ \E sc \in Schedulers : spc[sc] = "call" /\ enqueue_task_hset(sc)
    \/ \E sc \in Schedulers : enqueue_task_expire(sc)
    \/ \E sc \in Schedulers : enqueue_task_lpush(sc)
    \/ \E sc \in Schedulers : scheduler_run_update(sc)

SpecSchedulers == Init /\ [][NextSchedulers]_vars

\* The ids enqueue_task generates: calls by the API handlers and the
\* scheduler, and the clock.
NextIds ==
    \/ Tick
    \/ \E p \in Producers : enqueue_task_generate_id(p)

SpecIds == Init /\ [][NextIds]_vars

(* ------------------------------- claims ------------------------------- *)
\* C1 (as stated): get_next_task never pops an id from 'tasks:low' at a
\* moment when 'tasks:high' is non-empty.
C1_NeverLowWhileHighQueued ==
    \A w \in Workers : w_lane[w] = "tasks:low" => w_high_len[w] = 0

\* C1 (amended): get_next_task pops an id from 'tasks:low' only after its own
\* RPOP of 'tasks:high', earlier in the same call, found that lane empty.
C1_LowOnlyAfterHighFoundEmpty ==
    \A w \in Workers : w_lane[w] = "tasks:low" => w_high_empty[w]

\* A worker popped a LOW id while a HIGH id, pushed after the worker's RPOP
\* of 'tasks:high', was queued.
C1_Witness ==
    \E w \in Workers :
        w_lane[w] = "tasks:low" /\ w_high_empty[w] /\ w_high_len[w] > 0

\* C2: within a lane the ids are popped in the order of their pushes: every
\* pop so far took the oldest push still queued on its lane.
C2_FifoWithinLane == fifo

\* Two ids pushed onto the same lane have both been popped from it.
C2_Witness == \E q \in Lanes : last_pop[q] >= 2

(* C3 *)
\* The status steps the claim allows: creation, pending -> processing,
\* processing -> completed / failed, processing -> pending (by the sweep),
\* and the record's expiry.
AllowedStep(a, b) ==
    \/ a = b
    \/ b = NoField
    \/ <<a, b>> \in {<<NoField, PENDING>>, <<PENDING, PROCESSING>>,
                    <<PROCESSING, COMPLETED>>, <<PROCESSING, FAILED>>,
                    <<PROCESSING, PENDING>>}
SweepWrites(i) ==
    \E w \in Workers : wpc[w] = "sweep_hset" /\ wpc'[w] = "sweep_lpush" /\ w_cursor[w] = i
Holds(w, i) == w_id[w] = i /\ wpc[w] \in {"process", "hset_completed"}
TwoHold(i) == \E w1, w2 \in Workers : w1 # w2 /\ Holds(w1, i) /\ Holds(w2, i)
WaitDone == wt_pc = "done"
C7_UnknownIdIsNotTimeout ==
    WaitDone /\ wt_id = UnknownId
        => /\ wt_out.kind # "TimeoutError"
           /\ ApiResponse(wt_out) # ApiResponse(Raised("TimeoutError", "Task timed out"))

(* C8 *)
Count(i, q) == Cardinality({k \in 1..Len(q) : q[k] = i})
Queued(i) == Count(i, high) + Count(i, low)
InHand(i) == \E w \in Workers : w_id[w] = i
\* No id is in the lanes more than once.
NoDuplicateQueued == \A i \in TaskIds : Queued(i) <= 1
SweepsDone == sweeps >= 2 /\ NoSweepRunning
SweepPushes(i) ==
    \E w \in Workers : wpc[w] = "sweep_lpush" /\ wpc'[w] = "scan" /\ w_cursor[w] = i
OriginalLane(t) == IF t.priority = ToString(HIGH) THEN "tasks:high" ELSE "tasks:low"
SetResultStep(w) ==
    \/ wpc[w] = "process" /\ wpc'[w] = "hset_completed"
    \/ wpc[w] = "hset_completed" /\ wpc'[w] = "loop"
C18_StatusOfExistingTask ==
    \A i \in Enqueued :
        /\ get_task_status(i) # None
        /\ StatusResponse(i).status_code = 200

(* C19 *)
\* C19: get_queue_metrics reports as queued the number of ids in the two
\* lanes and as processing the number of tasks in status processing.
C19_MetricsMatchQueue ==
    /\ get_queue_metrics.queued_tasks = Len(high) + Len(low)
    /\ get_queue_metrics.processing_tasks =
           Cardinality({i \in TaskIds : task[i].status = PROCESSING})

C21_StoreFailurePropagates ==
    \A x \in Workers \cup Enqueuers :
        last_call[x] # NoCall => last_call[x].ended = "raise"

C23_AtMostOnePrimary ==
    \A g, h \in Pool : primary[g] = "True" /\ primary[h] = "True" => g = h

(* C24 *)
\* C24: once the process that was primary has stopped and no running process
\* is primary, the next attempt of another running process succeeds: it
\* becomes the primary.
C24_HandoverAfterHolderStops ==
    [][\A g \in Pool :
          (/\ holder_left /\ \A h \in Pool : primary[h] # "True"
           /\ pid[g] # NoPid /\ pid'[g] = pid[g]
           /\ primary'[g] # primary[g])
          => primary'[g] = "True"]_vars

(* C25 *)
\* C25: across all scheduler processes, two update_spot_prices tasks are
\* enqueued at least update_interval apart.
C25_OneUpdateTaskPerInterval ==
    \A i, j \in TaskIds :
        (/\ i # j /\ Exists(i) /\ Exists(j)
         /\ task[i].type = "update_spot_prices" /\ task[j].type = "update_spot_prices")
        => \/ task[i].created_at - task[j].created_at >= Seconds(update_interval)
           \/ task[j].created_at - task[i].created_at >= Seconds(update_interval)

(* C26 *)
\* C26: no two enqueue_task calls generate the same task id.
C26_UniqueTaskIds ==
    \A i, j \in 1..Len(issued) : i # j => issued[i].id # issued[j].id

InLane(i, q) == \E k \in 1..Len(q) : q[k] = i
\* No list holds the id and no call of a producer or worker is using it.
Unreferenced(i) ==
    /\ ~InLane(i, high) /\ ~InLane(i, low)
    /\ \A p \in Enqueuers : p_id[p] # i
    /\ \A w \in Workers : w_id[w] # i

\* src/redis_cache.py:124-151, one whole call of a producer that goes on
\* enqueueing for ever.  Its id (lines 127-129) is new to the store: the
\* model, which has MaxTasks ids, takes an unreferenced one for it and
\* starts its keys afresh.  The pushes are no longer numbered.
enqueue_task_sustained(p) ==
    /\ ppc[p] = "idle"
    /\ \E id \in TaskIds :
        /\ Unreferenced(id)
        /\ task' = [task EXCEPT ![id] =
                      [EmptyHash EXCEPT !.type = TaskType(p), !.status = PENDING,
                                        !.data = "json", !.created_at = now,
                                        !.priority = RedisEncode(TaskPriorityOf(p))]]
        /\ task_ttl' = [task_ttl EXCEPT ![id] = ExpireAt(cache_expiry)]
        /\ result' = [result EXCEPT ![id] = NoValue]
        /\ result_ttl' = [result_ttl EXCEPT ![id] = NoExpiry]
        /\ sent' = [sent EXCEPT ![id] = None]
        /\ started_at' = [started_at EXCEPT ![id] = NoTime]
        /\ LET q == QueueKey(TaskPriorityOf(p)) IN
            /\ high' = IF q = "tasks:high" THEN LPush(high, id) ELSE high
            /\ low' = IF q = "tasks:low" THEN LPush(low, id) ELSE low
    /\ UNCHANGED <<ext_vars, waiter_vars, decode_responses, now, producer_vars,
                   worker_vars, history_vars>>

\* One step of Worker.run without the sweep (src/worker.py:119-124).
GetAndProcess(w) ==
    \/ get_next_task_rpop_high(w)
    \/ get_next_task_rpop_low(w)
    \/ get_next_task_hgetall(w)
    \/ get_next_task_hset(w)
    \/ process_task_no_outcome(w)
    \/ process_task_set_result(w, OneResult)
    \/ set_task_result_hset(w)
    \/ process_task_set_error(w)

NextSustained ==
    \/ Tick
    \/ \E p \in Producers : enqueue_task_sustained(p)
    \/ \E w \in Workers : get_next_task_rpop_high(w)
    \/ \E w \in Workers : get_next_task_rpop_low(w)
    \/ \E w \in Workers : get_next_task_hgetall(w)
    \/ \E w \in Workers : get_next_task_hset(w)
    \/ \E w \in Workers : process_task_no_outcome(w)
    \/ \E w \in Workers : process_task_set_result(w, OneResult)
    \/ \E w \in Workers : set_task_result_hset(w)
    \/ \E w \in Workers : process_task_set_error(w)

\* Every worker process keeps running its loop (src/worker.py:110); the
\* producers are under no obligation.
SpecSustained ==
    Init /\ [][NextSustained]_vars /\ \A w \in Workers : WF_vars(GetAndProcess(w))

C28_LowEventuallyDequeued ==
    \A i \in TaskIds : InLane(i, low) ~> ~InLane(i, low)

(* ---------------------------- price cache ---------------------------- *)
PyBool(b) == [ty |-> "bool", val |-> IF b THEN "True" ELSE "False"]
\* The dicts SpotPriceService.get_spot_price caches: the prices per
\* availability zone (src/spot_price_service.py:169-173; aws_timestamp is
\* None in data of the old format, line 90) and the "no price" result
\* (lines 121-126 and 146-151).  A key the dict lacks holds None here and is
\* not among `keys`.
PriceData(aws_timestamp, cached_at) ==
    [ty |-> "dict", keys |-> {"prices", "aws_timestamp", "cached_at"},
     prices |-> [az \in {"a"} |-> [ty |-> "float", val |-> "0.0049"]],
     aws_timestamp |-> aws_timestamp, cached_at |-> PyStr(cached_at),
     no_prices |-> None]
NoPriceData(cached_at) ==
    [ty |-> "dict", keys |-> {"prices", "aws_timestamp", "cached_at", "no_prices"},
     prices |-> [az \in {} |-> None],
     aws_timestamp |-> PyStr(cached_at), cached_at |-> PyStr(cached_at),
     no_prices |-> PyBool(TRUE)]
\* datetime.now(timezone.utc).isoformat()
isoformat(t) == ToString(t)
CacheData == {PriceData(PyStr("t0"), isoformat(now)), PriceData(None, isoformat(now)),
              NoPriceData(isoformat(now))}

\* json.dumps / json.loads of such a dict.
JsonLiteral(v) ==
    IF v.ty = "bool" THEN (IF v.val = "True" THEN "true" ELSE "false") ELSE JsonScalar(v)
JsonParseLiteral(t) ==
    IF t = "true" THEN PyBool(TRUE)
    ELSE IF t = "false" THEN PyBool(FALSE)
    ELSE JsonParseScalar(t)
json_dumps_data(d) ==
    [text |-> "object", keys |-> d.keys,
     prices |-> [az \in DOMAIN d.prices |-> JsonScalar(d.prices[az])],
     aws_timestamp |-> JsonScalar(d.aws_timestamp),
     cached_at |-> JsonScalar(d.cached_at),
     no_prices |-> JsonLiteral(d.no_prices)]
json_loads_data(j) ==
    [ty |-> "dict", keys |-> j.keys,
     prices |-> [az \in DOMAIN j.prices |-> JsonParseScalar(j.prices[az])],
     aws_timestamp |-> JsonParseScalar(j.aws_timestamp),
     cached_at |-> JsonParseScalar(j.cached_at),
     no_prices |-> JsonParseLiteral(j.no_prices)]

PriceFrame ==
    UNCHANGED <<late_vars, issued, last_call, pool_vars, sched_vars, started_at, waiter_vars, sent,
                decode_responses, producer_vars, worker_vars, history_vars, high, low>>

\* src/redis_cache.py:431-440: SETEX key cache_expiry json.dumps(data).
set_spot_prices_nx(region, instance_type, data) ==
    LET key == get_cache_key(region, instance_type) IN
        /\ spot_price' = [spot_price EXCEPT ![key] =
                             IF @ = NoValue THEN json_dumps_data(data) ELSE @]
        /\ spot_price_ttl' = [spot_price_ttl EXCEPT ![key] =
                                 IF spot_price[key] = NoValue THEN ExpireAt(cache_expiry) ELSE @]
        /\ last_set' = [last_set EXCEPT ![key] = data]
        /\ set_at' = [set_at EXCEPT ![key] = now]
        /\ removed' = [removed EXCEPT ![key] = FALSE]
        /\ UNCHANGED <<scanned, price_read, now, task, task_ttl, result, result_ttl>>
        /\ PriceFrame
set_spot_prices(region, instance_type, data) ==
    LET key == get_cache_key(region, instance_type) IN
        /\ spot_price' = [spot_price EXCEPT ![key] = json_dumps_data(data)]
        /\ spot_price_ttl' = [spot_price_ttl EXCEPT ![key] = ExpireAt(cache_expiry)]
        /\ last_set' = [last_set EXCEPT ![key] = data]
        /\ set_at' = [set_at EXCEPT ![key] = now]
        /\ removed' = [removed EXCEPT ![key] = FALSE]
        /\ UNCHANGED <<scanned, price_read, now, task, task_ttl, result, result_ttl>>
        /\ PriceFrame

\* src/redis_cache.py:421-426: GET key; json.loads(data) if data else None.
get_spot_prices(region, instance_type) ==
    LET key == get_cache_key(region, instance_type)
        data == spot_price[key]
    IN  /\ price_read' = [key |-> key,
                          value |-> IF data # NoValue THEN json_loads_data(data) ELSE None]
        /\ UNCHANGED <<spot_price, spot_price_ttl, scanned, last_set, set_at, removed,
                       now, task, task_ttl, result, result_ttl>>
        /\ PriceFrame

\* DEL of keys.
Delete(keys) ==
    /\ spot_price' = [k \in CacheKeys |-> IF k \in keys THEN NoValue ELSE spot_price[k]]
    /\ spot_price_ttl' = [k \in CacheKeys |-> IF k \in keys THEN NoExpiry ELSE spot_price_ttl[k]]
    /\ removed' = [k \in CacheKeys |-> IF k \in keys THEN TRUE ELSE removed[k]]
    /\ UNCHANGED <<price_read, last_set, set_at, now, task, task_ttl, result, result_ttl>>
    /\ PriceFrame

\* src/redis_cache.py:445-449: DEL key.
delete_spot_prices(region, instance_type) ==
    /\ Delete({get_cache_key(region, instance_type)})
    /\ UNCHANGED scanned

\* clear_cache (src/redis_cache.py:476-493) with its default pattern
\* "spot_price:*": SCAN yields the keys that exist, DEL removes them.
Matches(key) == SubSeq(key, 1, Len("spot_price:")) = "spot_price:"
clear_cache_scan ==
    /\ scanned = NoScan
    /\ scanned' = {k \in CacheKeys : Matches(k) /\ spot_price[k] # NoValue}
    /\ UNCHANGED <<spot_price, spot_price_ttl, price_read, last_set, set_at, removed,
                   now, task, task_ttl, result, result_ttl, api_vars>>
    /\ PriceFrame
clear_cache_delete ==
    /\ scanned # NoScan
    /\ Delete(scanned)
    /\ scanned' = NoScan
    /\ UNCHANGED api_vars

\* Half of cache_expiry passes; Redis deletes the keys whose expiry instant
\* is reached.
HalfExpiry ==
    /\ now + Seconds(cache_expiry \div 2) <= Seconds(MaxLife)
    /\ Elapse(Seconds(cache_expiry \div 2))
    /\ spot_price' = [k \in CacheKeys |->
                         IF Expired(spot_price_ttl[k], now') THEN NoValue ELSE spot_price[k]]
    /\ spot_price_ttl' = [k \in CacheKeys |->
                             IF Expired(spot_price_ttl[k], now') THEN NoExpiry
                             ELSE spot_price_ttl[k]]
    /\ UNCHANGED <<scanned, price_read, last_set, set_at, removed, api_vars>>
    /\ PriceFrame

NextPrices ==
    \/ HalfExpiry
    \/ \E r \in Regions, t \in InstanceTypes, d \in CacheData :
          set_spot_prices(r, t, d) /\ UNCHANGED api_vars
    \/ \E r \in Regions, t \in InstanceTypes : get_spot_prices(r, t) /\ UNCHANGED api_vars
    \/ \E r \in Regions, t \in InstanceTypes : delete_spot_prices(r, t) /\ UNCHANGED api_vars
    \/ clear_cache_scan
    \/ clear_cache_delete

SpecPrices == Init /\ [][NextPrices]_vars

(* C29 *)
\* The entry last set for the key has not reached the cache expiry.
Fresh(key) == set_at[key] # NoTime /\ now - set_at[key] < Seconds(cache_expiry)
AwsReplies == {"prices", "no prices", "error"}

\* src/api.py:123-130: a dict with the message and the status code.
format_error_response(message, status_code) ==
    [ty |-> "dict", error |-> message, status_code |-> status_code]
\* make_response(jsonify(price_data)), src/api.py:304.
JsonResponse(price_data) == [ty |-> "Response", error |-> price_data.error, status_code |-> 0]
\* src/api.py:301-305: the view's return value.
ViewReturn(price_data) ==
    IF price_data.error # NoField
    THEN format_error_response(price_data.error, 404)
    ELSE JsonResponse(price_data)
\* rate_limit, src/api.py:168-189: the status of the response is the second
\* member of a tuple the view returned, and 200 for anything else.
StatusOf(returned) == IF returned.ty = "tuple" THEN returned.status_code ELSE 200

\* The response sent for price_data, and whether price_data says that the
\* pair has no prices.
Respond(key, price_data) ==
    /\ response' = [key |-> key, no_prices |-> price_data.no_prices,
                    source |-> price_data.source,
                    status_code |-> StatusOf(ViewReturn(price_data)),
                    error |-> ViewReturn(price_data).error,
                    body_status_code |-> ViewReturn(price_data).status_code]
    /\ req' = NoRequest

\* src/api.py:291-299 and src/spot_price_service.py:87: the request arrives
\* and the service reads the cache.
get_spot_price_lookup(region, instance_type) ==
    /\ req.pc = "idle"
    /\ get_spot_prices(region, instance_type)
    /\ req' = [pc |-> "looked", region |-> region, instance_type |-> instance_type,
               cached_data |-> price_read'.value]
    /\ UNCHANGED response

\* src/spot_price_service.py:88-92: cached data without aws_timestamp is
\* deleted and fetched again.
get_spot_price_refresh ==
    /\ req.pc = "looked"
    /\ req.cached_data # None
    /\ req.cached_data.aws_timestamp = None
    /\ delete_spot_prices(req.region, req.instance_type)
    /\ req' = [req EXCEPT !.cached_data = None]
    /\ UNCHANGED response

\* src/spot_price_service.py:93-104: a cache hit is returned, with
\* cached_data.get('no_prices', False) and without an 'error'.
get_spot_price_hit ==
    /\ req.pc = "looked"
    /\ req.cached_data # None
    /\ req.cached_data.aws_timestamp # None
    /\ Respond(get_cache_key(req.region, req.instance_type),
               [error |-> NoField, source |-> "cache",
                no_prices |-> req.cached_data.no_prices = PyBool(TRUE)])
    /\ UNCHANGED <<price_vars, now, task, task_ttl, result, result_ttl>>
    /\ PriceFrame

\* src/spot_price_service.py:106-180: a cache miss goes to AWS.  No prices:
\* the "no price" result is cached and an error dict with no_prices
\* returned (lines 118-132 and 143-156); prices: they are cached and
\* returned (158-175); any other error: {'error': str(e)} (178-180).
get_spot_price_fetch(reply) ==
    /\ req.pc = "looked"
    /\ req.cached_data = None
    /\ LET key == get_cache_key(req.region, req.instance_type) IN
        CASE reply = "no prices" ->
               /\ set_spot_prices(req.region, req.instance_type, NoPriceData(isoformat(now)))
               /\ Respond(key, [error |-> "No prices found", source |-> NoField,
                                no_prices |-> TRUE])
          [] reply = "prices" ->
               /\ set_spot_prices(req.region, req.instance_type,
                                  PriceData(PyStr("t0"), isoformat(now)))
               /\ Respond(key, [error |-> NoField, source |-> "aws", no_prices |-> FALSE])
          [] reply = "error" ->
               /\ Respond(key, [error |-> "boom", source |-> NoField, no_prices |-> FALSE])
               /\ UNCHANGED <<price_vars, now, task, task_ttl, result, result_ttl>>
               /\ PriceFrame

NextApi ==
    \/ HalfExpiry
    \/ \E r \in Regions, t \in InstanceTypes : get_spot_price_lookup(r, t)
    \/ get_spot_price_refresh
    \/ get_spot_price_hit
    \/ \E reply \in AwsReplies : get_spot_price_fetch(reply)
    \/ \E r \in Regions, t \in InstanceTypes :
          set_spot_prices(r, t, PriceData(None, isoformat(now))) /\ UNCHANGED api_vars

SpecApi == Init /\ [][NextApi]_vars

(* C30 *)
\* C30: a request for a pair that has no prices, whether AWS said so on this
\* request or the cached "no price" entry did, is answered with status 404
\* and an error.
C30_NoPricesMeans404 ==
    (response.key # NoField /\ response.no_prices)
        => (response.status_code = 404 /\ response.error # NoField)
\* C30 read by the body alone: such a response carries an error and names
\* 404 in its status_code member.
C30_NoPricesBodySays404 ==
    (response.key # NoField /\ response.no_prices)
        => (response.body_status_code = 404 /\ response.error # NoField)

(* --------------------- RedisCache._retry_operation ------------------- *)
\* Everything but the variables of the sections below.
base_vars == <<decode_responses, now, store_vars, producer_vars, worker_vars, history_vars,
               sent, started_at, waiter_vars, last_call, pool_vars, sched_vars, issued,
               price_vars, api_vars>>
not_retry_vars == <<base_vars, lapsed, limit_vars, running>>

\* What one invocation of the operation does: it returns a value (None
\* included), or raises redis.ConnectionError or redis.TimeoutError (line
\* 107), or raises an error of another kind (line 116).
Transient == {"ConnectionError", "TimeoutError"}
OperationReplies ==
    {Returned(PyStr("value")), Returned(None)}
        \cup {Raised(k, "") : k \in Transient \cup {"ResponseError"}}
\* The exception object of the invocation numbered n.
ErrorOf(reply, n) == Raised(reply.kind, ToString(n))

\* line 110: attempt < self.max_retries - 1.
HasNextAttempt_extra(n) == n < max_retries
HasNextAttempt(n) == n < max_retries - 1

\* lines 103-105: last_error = None; the loop starts with attempt 0.
retry_operation_begin ==
    /\ rpc = "idle"
    /\ max_retries > 0
    /\ rpc' = "attempt"
    /\ attempt' = 0
    /\ last_error' = None
    /\ retry_log' = <<>>
    /\ reconnects' = <<>>
    /\ retry_out' = NoOutcome
    /\ UNCHANGED not_retry_vars

\* lines 106-121: one invocation.  A value is returned; an error of another
\* kind is raised at once; a connection or timeout error is kept in
\* last_error, and raised when the attempts are used up.
retry_operation_attempt(reply) ==
    /\ rpc = "attempt"
    /\ retry_log' = Append(retry_log, IF reply.kind = "return" THEN reply
                                      ELSE ErrorOf(reply, attempt))
    /\ IF reply.kind = "return"
       THEN /\ retry_out' = reply
            /\ rpc' = "idle"
            /\ UNCHANGED last_error
       ELSE IF reply.kind \in Transient
       THEN /\ last_error' = ErrorOf(reply, attempt)
            /\ IF HasNextAttempt(attempt)
               THEN rpc' = "reconnect" /\ UNCHANGED retry_out
               ELSE rpc' = "idle" /\ retry_out' = last_error'
       ELSE /\ retry_out' = ErrorOf(reply, attempt)
            /\ rpc' = "idle"
            /\ UNCHANGED last_error
    /\ UNCHANGED <<attempt, reconnects, not_retry_vars>>

\* lines 112-116: sleep, then connect(); its failure is logged and the loop
\* goes on with the next attempt.
retry_operation_reconnect(connected) ==
    /\ rpc = "reconnect"
    /\ reconnects' = Append(reconnects, connected)
    /\ attempt' = attempt + 1
    /\ rpc' = "attempt"
    /\ UNCHANGED <<last_error, retry_log, retry_out, not_retry_vars>>

NextRetry ==
    \/ retry_operation_begin
    \/ \E reply \in OperationReplies : retry_operation_attempt(reply)
    \/ \E connected \in BOOLEAN : retry_operation_reconnect(connected)

SpecRetry == Init /\ [][NextRetry]_vars

(* C31 *)
\* C31: _retry_operation invokes the operation at most max_retries times;
\* what it returns is the value of the first invocation that succeeded; what
\* it raises is an error of another kind as soon as one occurs, or the last
\* connection/timeout error once max_retries invocations in a row have
\* failed with such errors; failed reconnects do not stop the attempts.
C31_BoundedRetry ==
    /\ Len(retry_log) <= max_retries
    /\ \A n \in 1..(Len(retry_log) - 1) : retry_log[n].kind \in Transient
    /\ Len(reconnects) = (IF rpc = "attempt" THEN Len(retry_log) ELSE Len(retry_log) - 1)
           \/ retry_log = <<>>
    /\ retry_out # NoOutcome =>
        /\ rpc = "idle"
        /\ retry_out = retry_log[Len(retry_log)]
        /\ retry_out.kind \in Transient => Len(retry_log) = max_retries
\* Two reconnects failed, and the third invocation still took place and its
\* connection error was raised.
C31_Witness ==
    /\ reconnects = <<FALSE, FALSE>>
    /\ Len(retry_log) = max_retries
    /\ retry_out = Raised("ConnectionError", ToString(max_retries - 1))

(* C32 *)
\* No call of enqueue_task, get_next_task, process_task or
\* requeue_stale_tasks is under way.
NoQueueOperation ==
    /\ \A p \in Enqueuers : ppc[p] = "idle"
    /\ \A w \in Workers : wpc[w] = "loop"
\* C32: with no queue operation in progress, every task record that exists
\* with status pending has its id once in exactly one lane, also after a
\* get_next_task that returned None or met a store error after its pop.
C32_NoPendingTaskLost ==
    NoQueueOperation =>
        \A i \in TaskIds : (Exists(i) /\ task[i].status = PENDING) => Queued(i) = 1
\* The same for a client whose replies decode, where the only way to lose
\* the id is the store error after the pop.
C32_NoPendingTaskLostAfterStoreError ==
    (CanDecode /\ NoQueueOperation) =>
        \A i \in TaskIds : (Exists(i) /\ task[i].status = PENDING) => Queued(i) = 1

(* -------------------- task records and their expiry ------------------ *)
TaskKey(id) == "task:" \o ToString(id)
\* Half of the keys' lifetime (cache_expiry, lines 144 and 248) passes; the
\* keys Redis deletes in that time are noted.
HalfLifeNoted ==
    /\ now + Seconds(cache_expiry \div 2) <= Seconds(MaxLife)
    /\ Elapse(Seconds(cache_expiry \div 2))
    /\ lapsed' = lapsed
          \cup {TaskKey(i) : i \in {j \in TaskIds : task_ttl[j] # NoExpiry /\ now' >= task_ttl[j]}}
          \cup {ResultKey(i) : i \in {j \in TaskIds : result_ttl[j] # NoExpiry
                                                       /\ now' >= result_ttl[j]}}
    /\ UNCHANGED <<retry_vars, limit_vars, running, issued, price_vars, api_vars, last_call,
                   pool_vars, sched_vars,
                   started_at, waiter_vars, sent, decode_responses, high, low,
                   producer_vars, worker_vars, history_vars>>

\* Producers, a worker with its sweeps, and the clock up to the records'
\* lifetime.
NextRecords ==
    \/ HalfLifeNoted
    \/ \E p \in Producers : enqueue_task_hset(p)
    \/ \E p \in Producers : enqueue_task_expire(p)
    \/ \E p \in Producers : enqueue_task_lpush(p)
    \/ run_requeue_due("w1")
    \/ requeue_stale_tasks_scan("w1")
    \/ requeue_stale_tasks_hset("w1")
    \/ requeue_stale_tasks_lpush("w1")
    \/ get_next_task_rpop_high("w1")
    \/ get_next_task_rpop_low("w1")
    \/ get_next_task_hgetall("w1")
    \/ get_next_task_hset("w1")
    \/ process_task_no_outcome("w1")
    \/ process_task_set_result("w1", OneResult)
    \/ set_task_result_hset("w1")
    \/ process_task_set_error("w1")

SpecRecords == Init /\ [][NextRecords]_vars

NextResults ==
    \/ HalfLifeNoted
    \/ enqueue_task_hset("api")
    \/ enqueue_task_expire("api")
    \/ enqueue_task_lpush("api")
    \/ \E w \in Workers : run_requeue_due(w)
    \/ \E w \in Workers : requeue_stale_tasks_scan(w)
    \/ \E w \in Workers : requeue_stale_tasks_hset(w)
    \/ \E w \in Workers : requeue_stale_tasks_lpush(w)
    \/ \E w \in Workers : get_next_task_rpop_high(w)
    \/ \E w \in Workers : get_next_task_rpop_low(w)
    \/ \E w \in Workers : get_next_task_hgetall(w)
    \/ \E w \in Workers : get_next_task_hset(w)
    \/ \E w \in Workers : process_task_set_result(w, OneResult)
    \/ \E w \in Workers : set_task_result_hset(w)
    \/ \E w \in Workers : process_task_set_error(w)

SpecResults == Init /\ [][NextResults]_vars

LimitFrame ==
    UNCHANGED <<decode_responses, producer_vars, worker_vars, history_vars, sent, started_at,
                waiter_vars, last_call, pool_vars, sched_vars, issued, price_vars, api_vars,
                retry_vars, lapsed, running>>

\* The clock reaches the last tenth of a second of a window, or the start
\* of the next one.
LimitInstants ==
    UNION {{k * Seconds(RATE_LIMIT_WINDOW) - 1, k * Seconds(RATE_LIMIT_WINDOW)} : k \in 1..MaxWindows}
rate_limit_time_passes ==
    /\ \E t \in LimitInstants : t > now /\ Elapse(t - now)
    /\ UNCHANGED <<high, low, limit_vars>>
    /\ LimitFrame

\* src/api.py:143: f'rate_limit:{client_ip}:{current // RATE_LIMIT_WINDOW}'
\* with current = int(time.time()).
WindowOf(t) == (t \div TicksPerSecond) \div RATE_LIMIT_WINDOW
RateKey(r) == <<r.client_ip, r.window>>
Answer(r, status_code, error, body_status_code) ==
    [r EXCEPT !.pc = "done", !.status_code = status_code, !.error = error,
              !.body_status_code = body_status_code]
LimitStep(c, r) ==
    /\ rl_req' = [rl_req EXCEPT ![c] = r]
    /\ UNCHANGED <<now, store_vars>>
    /\ LimitFrame

\* lines 136-138: an OPTIONS request is answered at once.
rate_limit_options(c) ==
    /\ rl_req[c].pc = "idle"
    /\ LimitStep(c, Answer(rl_req[c], 200, NoField, 0))
    /\ UNCHANGED <<rl_count, rl_ttl, rl_failed>>

\* lines 141-143: the client address, the clock reading and the key.
rate_limit_key(c, client_ip) ==
    /\ rl_req[c].pc = "idle"
    /\ LimitStep(c, [rl_req[c] EXCEPT !.pc = "incr", !.client_ip = client_ip,
                                      !.window = WindowOf(now)])
    /\ UNCHANGED <<rl_count, rl_ttl, rl_failed>>

\* lines 147-150: INCR key through _retry_operation; a key that is missing
\* or has expired counts from 0.  A failure leads to the except of line 191.
OverLimit(current_requests) == current_requests > RATE_LIMIT
rate_limit_incr(c, succeeds) ==
    /\ rl_req[c].pc = "incr"
    /\ LET key == RateKey(rl_req[c])
           gone == Expired(rl_ttl[key], now)
           current_requests == (IF gone THEN 0 ELSE rl_count[key]) + 1
       IN IF succeeds
          THEN /\ rl_count' = [rl_count EXCEPT ![key] = current_requests]
               /\ rl_ttl' = [rl_ttl EXCEPT ![key] = IF gone THEN NoExpiry ELSE @]
               /\ LimitStep(c, [rl_req[c] EXCEPT
                                   !.pc = IF current_requests = 1 THEN "expire" ELSE "check",
                                   !.current_requests = current_requests])
               /\ UNCHANGED rl_failed
          ELSE /\ rl_failed' = TRUE
               /\ LimitStep(c, [rl_req[c] EXCEPT !.pc = "except"])
               /\ UNCHANGED <<rl_count, rl_ttl>>

\* lines 153-158: EXPIRE key RATE_LIMIT_WINDOW on the first request.
rate_limit_expire(c, succeeds) ==
    /\ rl_req[c].pc = "expire"
    /\ IF succeeds
       THEN /\ rl_ttl' = [rl_ttl EXCEPT ![RateKey(rl_req[c])] =
                             IF rl_count[RateKey(rl_req[c])] = 0 \/ Expired(@, now)
                             THEN NoExpiry ELSE ExpireAt(RATE_LIMIT_WINDOW)]
            /\ rl_count' = [rl_count EXCEPT ![RateKey(rl_req[c])] =
                               IF Expired(rl_ttl[RateKey(rl_req[c])], now) THEN 0 ELSE @]
            /\ LimitStep(c, [rl_req[c] EXCEPT !.pc = "check"])
            /\ UNCHANGED rl_failed
       ELSE /\ rl_failed' = TRUE
            /\ LimitStep(c, [rl_req[c] EXCEPT !.pc = "except"])
            /\ UNCHANGED <<rl_count, rl_ttl>>

\* lines 161-166: over the limit the decorator returns the dict of
\* format_error_response itself, which Flask answers as it does any dict a
\* view returns; otherwise the handler is called (line 169).
rate_limit_check(c) ==
    /\ rl_req[c].pc = "check"
    /\ LET returned == format_error_response("Rate limit exceeded. Please try again later.", 429)
       IN LimitStep(c, IF OverLimit(rl_req[c].current_requests)
                       THEN Answer(rl_req[c], StatusOf(returned), returned.error,
                                   returned.status_code)
                       ELSE [rl_req[c] EXCEPT !.pc = "handler"])
    /\ UNCHANGED <<rl_count, rl_ttl, rl_failed>>

\* lines 169-189: the handler runs; its response is sent with the rate-limit
\* headers, and an exception it raises is caught at line 191.
rate_limit_handler(c, raises) ==
    /\ rl_req[c].pc = "handler"
    /\ LET r == [rl_req[c] EXCEPT !.invoked = @ + 1]
       IN LimitStep(c, IF raises THEN [r EXCEPT !.pc = "except"]
                       ELSE Answer(r, 200, NoField, 0))
    /\ UNCHANGED <<rl_count, rl_ttl, rl_failed>>

\* lines 191-197: 'Continue if rate limiting fails': the handler is called
\* (again); what it raises now leaves the decorator (the 500 handler,
\* lines 206-209).
rate_limit_except(c, raises) ==
    /\ rl_req[c].pc = "except"
    /\ LET r == [rl_req[c] EXCEPT !.invoked = @ + 1]
       IN LimitStep(c, IF raises THEN Answer(r, 500, "Internal server error", 500)
                       ELSE Answer(r, 200, NoField, 0))
    /\ UNCHANGED <<rl_count, rl_ttl, rl_failed>>

NextLimit ==
    \/ rate_limit_time_passes
    \/ \E c \in Clients : rate_limit_options(c)
    \/ \E c \in Clients, ip \in ClientIps : rate_limit_key(c, ip)
    \/ \E c \in Clients, succeeds \in BOOLEAN : rate_limit_incr(c, succeeds)
    \/ \E c \in Clients, succeeds \in BOOLEAN : rate_limit_expire(c, succeeds)
    \/ \E c \in Clients : rate_limit_check(c)
    \/ \E c \in Clients, raises \in BOOLEAN : rate_limit_handler(c, raises)
    \/ \E c \in Clients, raises \in BOOLEAN : rate_limit_except(c, raises)

SpecLimit == Init /\ [][NextLimit]_vars

\* The requests of one address and window whose handler has run.
Handled(key) == {c \in Clients : rl_req[c].invoked > 0 /\ RateKey(rl_req[c]) = key}
\* The handler runs for at most RATE_LIMIT requests of an address and window.
C36_HandlerRunsAtMostLimit ==
    ~rl_failed => \A key \in RateKeys : Cardinality(Handled(key)) <= RATE_LIMIT
\* A request counted beyond the limit is answered with the error dict that
\* names 429, and the handler has not run for it.
C36_ExcessBodySays429 ==
    \A c \in Clients :
        (rl_req[c].pc = "done" /\ rl_req[c].current_requests > RATE_LIMIT) =>
            /\ rl_req[c].invoked = 0
            /\ rl_req[c].body_status_code = 429
            /\ rl_req[c].error = "Rate limit exceeded. Please try again later."

(* C36 *)
\* C36: while the store operations succeed, the handler runs for at most
\* RATE_LIMIT requests of each client address and 60-second window, and
\* every request counted beyond the limit is answered with status 429 and
\* the 'Rate limit exceeded' error without the handler running.
C36_RateLimitUnderConcurrency ==
    ~rl_failed =>
        /\ \A key \in RateKeys : Cardinality(Handled(key)) <= RATE_LIMIT
        /\ \A c \in Clients :
              (rl_req[c].pc = "done" /\ rl_req[c].current_requests > RATE_LIMIT) =>
                  /\ rl_req[c].invoked = 0
                  /\ rl_req[c].status_code = 429
                  /\ rl_req[c].error = "Rate limit exceeded. Please try again later."

(* ------------------------ Worker.run and shutdown --------------------- *)
\* src/worker.py:109: while self.running
LoopTest_always(w) == TRUE
LoopTest(w) == running[w]

\* src/worker.py:55-58: SIGTERM or SIGINT arrives, at any point of the loop.
handle_signal(w) ==
    /\ running[w]
    /\ running' = [running EXCEPT ![w] = FALSE]
    /\ UNCHANGED <<base_vars, retry_vars, lapsed, limit_vars>>

\* lines 109 and 130: the loop test fails and run returns.
run_exit(w) ==
    /\ wpc[w] = "loop"
    /\ ~LoopTest(w)
    /\ Goto(w, "stopped")
    /\ UNCHANGED <<ext_vars, started_at, waiter_vars, sent, decode_responses, now, store_vars,
                   producer_vars, w_id, w_task, w_cursor, w_queue, w_count, sweeps,
                   history_vars>>

\* lines 109-114: the loop test passes and the sweep is due.
run_while_sweep(w) == LoopTest(w) /\ run_requeue_due(w)
\* lines 109-117: the loop test passes and no sweep is due, or the sweep of
\* this iteration has returned; get_next_task starts.
run_while_get(w) == (wpc[w] = "loop" => LoopTest(w)) /\ get_next_task_rpop_high(w)

\* One step of a worker's run.
WorkerRun(w) ==
    \/ run_exit(w)
    \/ run_while_sweep(w)
    \/ requeue_stale_tasks_scan(w)
    \/ requeue_stale_tasks_hset(w)
    \/ requeue_stale_tasks_lpush(w)
    \/ run_while_get(w)
    \/ get_next_task_rpop_low(w)
    \/ get_next_task_hgetall(w)
    \/ get_next_task_hset(w)
    \/ process_task_set_result(w, OneResult)
    \/ set_task_result_hset(w)
    \/ process_task_set_error(w)

\* An API handler's enqueues, the clock, the signal, and the run of a
\* worker, beside a second worker that takes a task and is slow to process
\* it.
NextShutdown ==
    \/ Tick
    \/ enqueue_task_hset("api")
    \/ enqueue_task_expire("api")
    \/ enqueue_task_lpush("api")
    \/ handle_signal("w1")
    \/ run_exit("w1")
    \/ run_while_sweep("w1")
    \/ requeue_stale_tasks_scan("w1")
    \/ requeue_stale_tasks_hset("w1")
    \/ requeue_stale_tasks_lpush("w1")
    \/ run_while_get("w1")
    \/ get_next_task_rpop_low("w1")
    \/ get_next_task_hgetall("w1")
    \/ get_next_task_hset("w1")
    \/ process_task_set_result("w1", OneResult)
    \/ set_task_result_hset("w1")
    \/ process_task_set_error("w1")
    \/ run_while_get("w2")
    \/ get_next_task_rpop_low("w2")
    \/ get_next_task_hgetall("w2")
    \/ get_next_task_hset("w2")

\* A worker process keeps executing: every store command and every fetch
\* returns, so a step of its run that stays possible is taken.
SpecShutdown ==
    Init /\ [][NextShutdown]_vars /\ WF_vars(WorkerRun("w1"))

====
